---- MODULE Spec2Model ----
(***************************************************************************)
(* The extract-text operation of the PDF extraction service               *)
(* (src/pdf-service/main.py): credential resolution, outbound fetch,      *)
(* status and size classification, text-layer extraction, the vision OCR  *)
(* fallback and the response.  One request is followed from its arrival   *)
(* to its response.  Text is a sequence of one-character strings.         *)
(***************************************************************************)
EXTENDS Integers, Sequences, FiniteSets, TLC

\* ------------------------------------------------------------------ bounds
\* Largest page count of a fetched document in the extraction scenarios
\* (the page cap of the fallback is 5).
MaxPages == 6
\* Largest page count of a fetched document in the request scenarios.
MaxRequestPages == 2
\* Number of leading pages of a document that may carry a text layer; the pages
\* after them are image-only.
MaxTextPages == 3
NumRequests == 2

\* ------------------------------------------------------- program constants
\* MAX_SIZE_MB and MAX_SIZE_BYTES of extract_text_from_pdf.
MAX_SIZE_MB == 10
MAX_SIZE_BYTES == MAX_SIZE_MB * 1024 * 1024
\* The trimmed-length threshold of the fallback trigger.
MIN_TEXT_CHARS == 50
\* The page cap of extract_text_with_vision: min(page_count, 5).
VISION_PAGE_CAP == 5
\* len("Bearer "), the slice authorization[7:].
BEARER_PREFIX_LEN == 7

\* ------------------------------------------------------------ text helpers
\* Python's None, a value no text equals.
None == <<"<None>">>

\* Truthiness of an Optional[str]: None and "" are falsy.
Truthy(s) == s # None /\ s # <<>>

\* A text of n copies of the character c.
Rep(c, n) == [k \in 1..n |-> c]

\* Characters str.strip() removes.
IsSpace(c) == c \in {" ", "\n", "\t", "\r"}

\* str.strip(): the text without its leading and trailing whitespace.
Strip(s) ==
    LET keep == {k \in 1..Len(s) : ~IsSpace(s[k])}
    IN  IF keep = {} THEN <<>>
        ELSE LET lo == CHOOSE k \in keep : \A m \in keep : k <= m
                 hi == CHOOSE k \in keep : \A m \in keep : k >= m
             IN  SubSeq(s, lo, hi)

\* sep.join(texts)
RECURSIVE Join(_, _)
Join(texts, sep) ==
    IF Len(texts) = 0 THEN <<>>
    ELSE IF Len(texts) = 1 THEN texts[1]
    ELSE texts[1] \o sep \o Join(Tail(texts), sep)

\* The blank-line separator "\n\n".
BlankLine == <<"\n", "\n">>

\* str.startswith
StartsWith(s, prefix) ==
    Len(s) >= Len(prefix) /\ SubSeq(s, 1, Len(prefix)) = prefix

\* The decimal digits of a natural number, as f"{n}" prints them.
Digit(d) == <<"0", "1", "2", "3", "4", "5", "6", "7", "8", "9">>[d + 1]

RECURSIVE Decimal(_)
Decimal(n) == IF n < 10 THEN <<Digit(n)>> ELSE Decimal(n \div 10) \o <<Digit(n % 10)>>

\* "Bearer "
BearerPrefix == <<"B", "e", "a", "r", "e", "r", " ">>

\* ------------------------------------------------------------------ inputs
\* Values of the Authorization header: absent, a bearer token, another
\* scheme, and the bare prefix "Bearer ".
BearerHeader == BearerPrefix \o <<"h", "1">>
Headers ==
    { None,
      BearerHeader,
      <<"B", "a", "s", "i", "c", " ", "x">>,
      BearerPrefix }

\* Values of the body field token: absent, empty, a token.
BodyTokens == { None, <<>>, <<"b", "1">> }

\* Upstream response statuses.
Statuses == {200, 201, 204, 302, 401, 403, 404, 413, 500, 504}

\* Lengths of the fetched body, around the maximum.
ContentLengths == {MAX_SIZE_BYTES - 1, MAX_SIZE_BYTES, MAX_SIZE_BYTES + 1}

\* Texts page.extract_text() returns for one page: nothing; MIN_TEXT_CHARS
\* characters of which the first is a space (one short of the threshold
\* once trimmed); MIN_TEXT_CHARS characters without whitespace.
EmptyPage == <<>>
SpacedPage == <<" ">> \o Rep("a", MIN_TEXT_CHARS - 1)
DensePage == Rep("b", MIN_TEXT_CHARS)
PageTexts == {EmptyPage, SpacedPage, DensePage}

\* The page sequences of the documents of at most n pages: up to MaxTextPages
\* pages of any of the page texts, followed by image-only pages.
Documents(n) ==
    LET heads == UNION {[1..k -> PageTexts] : k \in 0..(IF n < MaxTextPages THEN n ELSE MaxTextPages)}
    IN  {d \in {h \o Rep(EmptyPage, k) : h \in heads, k \in 0..n} : Len(d) <= n}

\* pdf.metadata: None, or a dictionary (its items) holding some of the keys.
NoMetadata == [is_none |-> TRUE, items |-> {}]
Metadatas ==
    { NoMetadata,
      [is_none |-> FALSE, items |-> {<<"Title", "Report">>, <<"Author", "Clinic">>}] }

\* `pdf.metadata or {}`
OrEmptyDict(m) == IF m.is_none \/ m.items = {} THEN {} ELSE m.items

\* dict.get(key, default)
Get(items, key, default) ==
    IF \E p \in items : p[1] = key
    THEN (CHOOSE p \in items : p[1] = key)[2]
    ELSE default

\* Values of the environment settings read at import: unset/empty, or set.
\* AZURE_OPENAI_DEPLOYMENT defaults to "gpt-4o", so it is empty only when
\* the environment sets it to "".
EndpointValues == { None, <<"u">> }
ApiKeyValues == { None, <<"k">> }
DeploymentValues == { <<>>, <<"g", "p", "t", "-", "4", "o">> }

\* Values of response.choices[0].message.content for one page.
RecognizedTexts == { None, <<>>, <<"o", "c", "r">> }

\* The entry of the recognition log for a call that raised.
Raised == <<"<Raised>">>

\* str(e) of an exception raised by the recognition call.
RecognitionErrorText == <<"E">>

\* ------------------------------------------------------------------- state
VARIABLES
    AZURE_OPENAI_ENDPOINT,    \* module globals, read from the environment
    AZURE_OPENAI_API_KEY,
    AZURE_OPENAI_DEPLOYMENT,
    pc,                       \* position of the request in the handler
    authorization,            \* the Authorization header of the request
    request_token,            \* request.token, the body field
    token,                    \* the resolved credential
    fetchCalls,               \* credentials sent upstream, one per fetch issued
    fetchOutcome,             \* "none", "timeout", "error" or "response": how the fetch ended
    status_code,              \* response.status_code of the fetch
    content_length,           \* len(response.content)
    document,                 \* page texts of the fetched body, as the parser reads them
    parseCalls,               \* number of times pdfplumber.open ran
    parseOutcome,             \* "none", "parsed" or "failed": how the text-layer parse ended
    page_count,
    metadata,
    extracted_text,           \* the non-empty page texts, in page order
    full_text,
    used_vision,
    visionCalls,              \* number of calls of extract_text_with_vision
    pdf_doc,                  \* "none", "open" or "closed": the PyMuPDF document
    max_pages,
    i,                        \* loop index of the page loop
    extracted_texts,          \* sections collected by the page loop
    renderCalls,              \* page indices handed to the rasterizer, in call order
    recogCalls,               \* page indices submitted for recognition, in call order
    recogResults,             \* what each recognition call gave: the content, or Raised
    visionOutcome,            \* how the fallback ended: "none", "returned", or the failing step
    response,                 \* the response of the request
    cpc,                      \* of each in-flight request: "new", "awaiting", "fetched",
                              \* "recognizing" or "done"
    running,                  \* the request whose handler holds the event loop's thread, or 0
    crequest,                 \* the Authorization header of each request
    replies,                  \* the fetch reply received by each request's client
    creplied,                 \* the fetch reply the upstream sent to each request
    cframe,                   \* the locals of each request's handler and fallback call
    crecognized,              \* the recognition results each request got, in call order
    cresponse,                \* the response of each request
    overlapped                \* a request started while another one was in flight

vars ==
    << AZURE_OPENAI_ENDPOINT, AZURE_OPENAI_API_KEY, AZURE_OPENAI_DEPLOYMENT, pc,
       authorization, request_token, token, fetchCalls, fetchOutcome, status_code,
       content_length,
       document, parseCalls, parseOutcome, page_count, metadata, extracted_text, full_text,
       used_vision, visionCalls, pdf_doc, max_pages, i, extracted_texts,
       renderCalls, recogCalls, recogResults, visionOutcome, response,
       cpc, running, crequest, replies, creplied, cframe, crecognized, cresponse,
       overlapped >>

concurrentVars ==
    << cpc, running, crequest, replies, creplied, cframe, crecognized, cresponse, overlapped >>
handlerVars ==
    << pc, authorization, request_token, token, fetchCalls, fetchOutcome, status_code,
       content_length, document, parseCalls, parseOutcome, page_count, metadata, extracted_text, full_text,
       used_vision, visionCalls, pdf_doc, max_pages, i, extracted_texts, renderCalls,
       recogCalls, recogResults, visionOutcome, response >>
configVars == << AZURE_OPENAI_ENDPOINT, AZURE_OPENAI_API_KEY, AZURE_OPENAI_DEPLOYMENT >>
requestVars == << authorization, request_token >>
fetchVars == << fetchCalls, fetchOutcome, status_code, content_length >>
parseVars == << document, parseCalls, parseOutcome, page_count, metadata, extracted_text >>
visionVars ==
    << visionCalls, pdf_doc, max_pages, i, extracted_texts, renderCalls, recogCalls, recogResults,
       visionOutcome >>

\* No response yet.
NoResponse == [status |-> 0, success |-> FALSE]

\* The in-flight requests of one service process.
Requests == 1..NumRequests

\* What a fetch comes back with: how it ended, the status, the body length and
\* the page texts of the body.
Reply(outcome, status, length, pages) ==
    [outcome |-> outcome, status_code |-> status, content_length |-> length, pages |-> pages]
NoReply == Reply("none", 0, 0, <<>>)

\* The locals of a handler that are live across the calls of the page loop.
Frame(text, pages, cap, k, sections) ==
    [full_text |-> text, page_count |-> pages, max_pages |-> cap, i |-> k,
     extracted_texts |-> sections]
NoFrame == Frame(<<>>, 0, 0, 0, <<>>)

Init ==
    /\ AZURE_OPENAI_ENDPOINT \in EndpointValues
    /\ AZURE_OPENAI_API_KEY \in ApiKeyValues
    /\ AZURE_OPENAI_DEPLOYMENT \in DeploymentValues
    /\ pc = "idle"
    /\ authorization = None
    /\ request_token = None
    /\ token = None
    /\ fetchCalls = <<>>
    /\ fetchOutcome = "none"
    /\ status_code = 0
    /\ content_length = 0
    /\ document = <<>>
    /\ parseCalls = 0
    /\ parseOutcome = "none"
    /\ page_count = 0
    /\ metadata = {}
    /\ extracted_text = <<>>
    /\ full_text = <<>>
    /\ used_vision = FALSE
    /\ visionCalls = 0
    /\ pdf_doc = "none"
    /\ max_pages = 0
    /\ i = 0
    /\ extracted_texts = <<>>
    /\ renderCalls = <<>>
    /\ recogCalls = <<>>
    /\ recogResults = <<>>
    /\ visionOutcome = "none"
    /\ response = NoResponse
    /\ cpc = [r \in Requests |-> "new"]
    /\ running = 0
    /\ crequest = [r \in Requests |-> None]
    /\ replies = [r \in Requests |-> NoReply]
    /\ creplied = [r \in Requests |-> NoReply]
    /\ cframe = [r \in Requests |-> NoFrame]
    /\ crecognized = [r \in Requests |-> <<>>]
    /\ cresponse = [r \in Requests |-> NoResponse]
    /\ overlapped = FALSE


\* ------------------------------------------------- exceptions and responses
HTTPException(status, msg, n) ==
    [exc |-> "HTTPException", status_code |-> status, detail |-> [msg |-> msg, n |-> n]]
TimeoutException == [exc |-> "TimeoutException", status_code |-> 0, detail |-> [msg |-> "timeout", n |-> 0]]
RequestError == [exc |-> "RequestError", status_code |-> 0, detail |-> [msg |-> "connect", n |-> 0]]
OtherException(msg) == [exc |-> "Exception", status_code |-> 0, detail |-> [msg |-> msg, n |-> 0]]
NoException == [exc |-> "none", status_code |-> 0, detail |-> [msg |-> "", n |-> 0]]

\* Except clauses with the RequestError clause first: a timeout, being a
\* RequestError too, is caught by it.
ExceptClausesRequestErrorFirst(e) ==
    IF e.exc \in {"RequestError", "TimeoutException"}
    THEN HTTPException(502, "Network error", 0)
    ELSE IF e.exc = "HTTPException"
    THEN e
    ELSE HTTPException(500, "Error processing PDF", 0)

\* Except clauses whose catch-all lets the exception through as it is.
ExceptClausesNoCatchAll(e) ==
    IF e.exc = "TimeoutException"
    THEN HTTPException(504, "Timeout while fetching PDF", 0)
    ELSE IF e.exc = "RequestError"
    THEN HTTPException(502, "Network error", 0)
    ELSE e

\* Except clauses whose catch-all converts whatever it catches.
ExceptClausesConvertAll(e) ==
    IF e.exc = "TimeoutException"
    THEN HTTPException(504, "Timeout while fetching PDF", 0)
    ELSE IF e.exc = "RequestError"
    THEN HTTPException(502, "Network error", 0)
    ELSE HTTPException(500, "Error processing PDF", 0)

\* The except clauses closing the handler's try block: what the handler
\* finally raises for an exception e raised inside the block.
ExceptClauses(e) ==
    IF e.exc = "TimeoutException"
    THEN HTTPException(504, "Timeout while fetching PDF", 0)
    ELSE IF e.exc = "RequestError"
    THEN HTTPException(502, "Network error", 0)
    ELSE IF e.exc = "HTTPException"
    THEN e
    ELSE HTTPException(500, "Error processing PDF", 0)

\* The error response the framework sends for a raised HTTPException.
ErrorResponse(e) == [status |-> e.status_code, success |-> FALSE, detail |-> e.detail]

\* A success record whose char_count is the trimmed length the trigger computed.
SuccessResponseTrimmedCount(text, pages, used, meta) ==
    [ status |-> 200,
      success |-> TRUE,
      text |-> text,
      page_count |-> pages,
      char_count |-> Len(Strip(text)),
      used_vision_ocr |-> used,
      metadata |-> [ title |-> Get(meta, "Title", ""),
                     author |-> Get(meta, "Author", ""),
                     creator |-> Get(meta, "Creator", ""),
                     creation_date |-> Get(meta, "CreationDate", "") ] ]

\* The record the handler returns on success.
SuccessResponse(text, pages, used, meta) ==
    [ status |-> 200,
      success |-> TRUE,
      text |-> text,
      page_count |-> pages,
      char_count |-> Len(text),
      used_vision_ocr |-> used,
      metadata |-> [ title |-> Get(meta, "Title", ""),
                     author |-> Get(meta, "Author", ""),
                     creator |-> Get(meta, "Creator", ""),
                     creation_date |-> Get(meta, "CreationDate", "") ] ]

\* -------------------------------------------------- the handler's decisions
\* A resolution that formats the body token into the credential as the mock
\* backend's f"Bearer {request.token}" does, an absent token printing as "None".
ResolveTokenFormatted(auth, body) ==
    IF Truthy(auth) /\ StartsWith(auth, BearerPrefix)
    THEN SubSeq(auth, BEARER_PREFIX_LEN + 1, Len(auth))
    ELSE IF body = None THEN <<"N", "o", "n", "e">> ELSE body

\* A resolution that prefers the body token to the header.
ResolveTokenBodyFirst(auth, body) ==
    IF Truthy(body)
    THEN body
    ELSE IF Truthy(auth) /\ StartsWith(auth, BearerPrefix)
    THEN SubSeq(auth, BEARER_PREFIX_LEN + 1, Len(auth))
    ELSE None

\* The credential: the header's bearer token, else the body token, else None.
ResolveToken(auth, body) ==
    IF Truthy(auth) /\ StartsWith(auth, BearerPrefix)
    THEN SubSeq(auth, BEARER_PREFIX_LEN + 1, Len(auth))
    ELSE IF Truthy(body) THEN body ELSE None

\* Status checks that report every other upstream status as a bad gateway.
StatusFailureBadGateway(status) ==
    IF status = 401
    THEN HTTPException(401, "Unauthorized - token may be expired", 0)
    ELSE IF status = 404
    THEN HTTPException(404, "Document not found at URL", 0)
    ELSE IF status # 200
    THEN HTTPException(502, "Failed to fetch PDF", status)
    ELSE NoException

\* The exception the status checks raise for an upstream status, if any.
StatusFailure(status) ==
    IF status = 401
    THEN HTTPException(401, "Unauthorized - token may be expired", 0)
    ELSE IF status = 404
    THEN HTTPException(404, "Document not found at URL", 0)
    ELSE IF status # 200
    THEN HTTPException(status, "Failed to fetch PDF", status)
    ELSE NoException

\* A size check that also rejects a body of exactly the maximum length.
TooLargeInclusive(length) == length >= MAX_SIZE_BYTES

\* The size check.
TooLarge(length) == length > MAX_SIZE_BYTES

\* A parse loop that appends every page's text, empty or not.
KeptTextsEveryPage(pages) == pages

\* The texts the page loop of the text-layer parse keeps: `if text:`.
KeptTexts(pages) == SelectSeq(pages, LAMBDA t : Truthy(t))

\* A trigger that looks at the text only.
NeedsVisionWhateverPages(text, pages) == Len(Strip(text)) < MIN_TEXT_CHARS

\* The fallback trigger.
NeedsVision(text, pages) == Len(Strip(text)) < MIN_TEXT_CHARS /\ pages > 0

\* A configuration check that forgets the deployment.
VisionConfiguredNoDeployment ==
    /\ Truthy(AZURE_OPENAI_ENDPOINT)
    /\ Truthy(AZURE_OPENAI_API_KEY)

\* The upfront configuration check of extract_text_with_vision.
VisionConfigured ==
    /\ Truthy(AZURE_OPENAI_ENDPOINT)
    /\ Truthy(AZURE_OPENAI_API_KEY)
    /\ Truthy(AZURE_OPENAI_DEPLOYMENT)

\* A page loop without the cap.
MaxVisionPagesUncapped(pages) == pages

\* max_pages = min(page_count, 5)
MaxVisionPages(pages) == IF pages < VISION_PAGE_CAP THEN pages ELSE VISION_PAGE_CAP

\* f"--- Page {k + 1} ---\n", for the loop index k
PageMarker(k) ==
    <<"-", "-", "-", " ", "P", "a", "g", "e", " ">> \o Decimal(k + 1)
        \o <<" ", "-", "-", "-", "\n">>

\* The section of a recognized page.
PageSection(k, page_text) == PageMarker(k) \o page_text

\* "[Error extracting text: " ... "]"
ErrorText(msg) ==
    << "[", "E", "r", "r", "o", "r", " ", "e", "x", "t", "r", "a", "c", "t", "i", "n", "g",
       " ", "t", "e", "x", "t", ":", " " >> \o msg \o <<"]">>

\* The section of a page whose recognition raised.
ErrorSection(k, msg) == PageMarker(k) \o ErrorText(msg)

\* ----------------------------------------------------------------- actions
\* A request arrives with its header and body token.
Receive(h, b) ==
    /\ pc = "idle"
    /\ authorization' = h
    /\ request_token' = b
    /\ pc' = "resolve"
    /\ UNCHANGED << concurrentVars, configVars, token, fetchVars, parseVars, full_text, used_vision,
                    visionVars, response >>

\* Credential resolution and the missing-credential check.
ResolveCredential ==
    /\ pc = "resolve"
    /\ token' = ResolveToken(authorization, request_token)
    /\ IF Truthy(token')
       THEN /\ pc' = "fetch"
            /\ UNCHANGED response
       ELSE /\ response' = ErrorResponse(HTTPException(401, "Authorization token required (via header or body)", 0))
            /\ pc' = "done"
    /\ UNCHANGED << concurrentVars, configVars, requestVars, fetchVars, parseVars, full_text, used_vision,
                    visionVars >>

\* The handler ends with the exception e raised inside the try block.
RaiseInTry(e) ==
    /\ response' = ErrorResponse(ExceptClauses(e))
    /\ pc' = "done"

\* The outbound fetch times out.
FetchTimeout ==
    /\ pc = "fetch"
    /\ fetchCalls' = Append(fetchCalls, token)
    /\ fetchOutcome' = "timeout"
    /\ RaiseInTry(TimeoutException)
    /\ UNCHANGED << concurrentVars, configVars, requestVars, token, status_code, content_length, parseVars,
                    full_text, used_vision, visionVars >>

\* The outbound fetch fails at the transport level.
FetchRequestError ==
    /\ pc = "fetch"
    /\ fetchCalls' = Append(fetchCalls, token)
    /\ fetchOutcome' = "error"
    /\ RaiseInTry(RequestError)
    /\ UNCHANGED << concurrentVars, configVars, requestVars, token, status_code, content_length, parseVars,
                    full_text, used_vision, visionVars >>

\* The outbound fetch returns a response with status s and a body of n bytes.
FetchResponse(s, n) ==
    /\ pc = "fetch"
    /\ fetchCalls' = Append(fetchCalls, token)
    /\ fetchOutcome' = "response"
    /\ status_code' = s
    /\ content_length' = n
    /\ pc' = "status"
    /\ UNCHANGED << concurrentVars, configVars, requestVars, token, parseVars, full_text, used_vision,
                    visionVars, response >>

\* The status checks.
CheckStatus ==
    /\ pc = "status"
    /\ IF StatusFailure(status_code) # NoException
       THEN RaiseInTry(StatusFailure(status_code))
       ELSE /\ pc' = "size"
            /\ UNCHANGED response
    /\ UNCHANGED << concurrentVars, configVars, requestVars, token, fetchVars, parseVars, full_text,
                    used_vision, visionVars >>

\* The size check.
CheckSize ==
    /\ pc = "size"
    /\ IF TooLarge(content_length)
       THEN RaiseInTry(HTTPException(413, "PDF too large", content_length))
       ELSE /\ pc' = "parse"
            /\ UNCHANGED response
    /\ UNCHANGED << concurrentVars, configVars, requestVars, token, fetchVars, parseVars, full_text,
                    used_vision, visionVars >>

\* pdfplumber cannot open or read the body.
ParseFails ==
    /\ pc = "parse"
    /\ parseCalls' = parseCalls + 1
    /\ parseOutcome' = "failed"
    /\ RaiseInTry(OtherException("parse"))
    /\ UNCHANGED << concurrentVars, configVars, requestVars, token, fetchVars, document, page_count,
                    metadata, extracted_text, full_text, used_vision, visionVars >>

\* The text-layer parse of a body holding the pages doc and the metadata meta,
\* the join of the kept texts and the fallback trigger.
ParseTextLayer(doc, meta) ==
    /\ pc = "parse"
    /\ parseCalls' = parseCalls + 1
    /\ parseOutcome' = "parsed"
    /\ document' = doc
    /\ page_count' = Len(doc)
    /\ metadata' = OrEmptyDict(meta)
    /\ extracted_text' = KeptTexts(doc)
    /\ full_text' = Join(extracted_text', BlankLine)
    /\ pc' = IF NeedsVision(full_text', page_count') THEN "vision_config" ELSE "respond"
    /\ UNCHANGED << concurrentVars, configVars, requestVars, token, fetchVars, used_vision, visionVars,
                    response >>

\* A handler that takes the sections recognized before a recognition call raised.
FallbackTextKeepsRecognized(text, outcome, sections) ==
    IF outcome \in {"returned", "recognize"} THEN Join(sections, BlankLine) ELSE text

\* A handler that keeps the text-layer text when the fallback returns nothing.
FallbackTextIfAny(text, outcome, sections) ==
    IF outcome = "returned" /\ sections # <<>> THEN Join(sections, BlankLine) ELSE text

\* The handler's try/except around the fallback: full_text after the call
\* ended with the given outcome ("returned", or the step that raised).
FallbackText(text, outcome, sections) ==
    IF outcome = "returned" THEN Join(sections, BlankLine) ELSE text

\* A handler that sets the flag before the call, so that it records the attempt.
FallbackUsedOnAttempt(outcome) == TRUE

\* used_vision after the call ended with the given outcome.
FallbackUsed(outcome) == outcome = "returned"

\* extract_text_with_vision ends with the given outcome and the handler goes
\* on to its return statement.
EndVision(outcome) ==
    /\ visionOutcome' = outcome
    /\ full_text' = FallbackText(full_text, outcome, extracted_texts)
    /\ used_vision' = FallbackUsed(outcome)
    /\ pc' = "respond"

\* extract_text_with_vision goes on to its next step.
ContinueVision(next) ==
    /\ pc' = next
    /\ UNCHANGED << visionOutcome, full_text, used_vision >>

\* Entry of extract_text_with_vision and its configuration check.
VisionConfigCheck ==
    /\ pc = "vision_config"
    /\ visionCalls' = visionCalls + 1
    /\ IF VisionConfigured
       THEN ContinueVision("vision_import")
       ELSE EndVision("config")
    /\ UNCHANGED << concurrentVars, configVars, requestVars, token, fetchVars, parseVars, pdf_doc, max_pages, i, extracted_texts, renderCalls,
                    recogCalls, recogResults, response >>

\* import fitz
VisionImport(ok) ==
    /\ pc = "vision_import"
    /\ IF ok
       THEN ContinueVision("vision_open")
       ELSE EndVision("import")
    /\ UNCHANGED << concurrentVars, configVars, requestVars, token, fetchVars, parseVars, visionCalls, pdf_doc, max_pages, i, extracted_texts,
                    renderCalls, recogCalls, recogResults, response >>

\* fitz.open and max_pages
VisionOpen(ok) ==
    /\ pc = "vision_open"
    /\ IF ok
       THEN /\ pdf_doc' = "open"
            /\ max_pages' = MaxVisionPages(page_count)
            /\ ContinueVision("vision_client")
       ELSE /\ EndVision("open")
            /\ UNCHANGED << pdf_doc, max_pages >>
    /\ UNCHANGED << concurrentVars, configVars, requestVars, token, fetchVars, parseVars, visionCalls, i, extracted_texts, renderCalls, recogCalls, recogResults,
                    response >>

\* AzureOpenAI(...), extracted_texts = [] and the start of the page loop
VisionClient(ok) ==
    /\ pc = "vision_client"
    /\ IF ok
       THEN /\ extracted_texts' = <<>>
            /\ i' = 0
            /\ ContinueVision(IF 0 < max_pages THEN "render" ELSE "vision_return")
       ELSE /\ EndVision("client")
            /\ UNCHANGED << extracted_texts, i >>
    /\ UNCHANGED << concurrentVars, configVars, requestVars, token, fetchVars, parseVars, visionCalls, pdf_doc, max_pages, renderCalls, recogCalls, recogResults,
                    response >>

\* Page i is looked up, rasterized and encoded; a failure leaves the function.
RenderPage(ok) ==
    /\ pc = "render"
    /\ renderCalls' = Append(renderCalls, i)
    /\ IF ok
       THEN ContinueVision("recognize")
       ELSE EndVision("render")
    /\ UNCHANGED << concurrentVars, configVars, requestVars, token, fetchVars, parseVars, visionCalls, pdf_doc, max_pages, i, extracted_texts,
                    recogCalls, recogResults, response >>

\* A loop that appends a section for every recognized page, empty or not.
AfterRecognizedEveryPage(sections, k, page_text) ==
    Append(sections, PageSection(k, IF page_text = None THEN <<>> ELSE page_text))

\* The sections after the recognition call of page k returned page_text.
AfterRecognized(sections, k, page_text) ==
    IF Truthy(page_text) THEN Append(sections, PageSection(k, page_text)) ELSE sections

\* The sections after the recognition call of page k raised with message msg.
AfterRecognitionError(sections, k, msg) == Append(sections, ErrorSection(k, msg))

\* The position after the body of the loop ran for index k.
NextIteration(k) == IF k + 1 < max_pages THEN "render" ELSE "vision_return"

\* The recognition call of page i returns page_text.
RecognizePage(page_text) ==
    /\ pc = "recognize"
    /\ recogCalls' = Append(recogCalls, i)
    /\ recogResults' = Append(recogResults, page_text)
    /\ extracted_texts' = AfterRecognized(extracted_texts, i, page_text)
    /\ i' = i + 1
    /\ pc' = NextIteration(i)
    /\ UNCHANGED << concurrentVars, configVars, requestVars, token, fetchVars, parseVars, full_text,
                    used_vision, visionCalls, pdf_doc, max_pages, renderCalls,
                    visionOutcome, response >>

\* The recognition call of page i raises.
RecognizeRaises ==
    /\ pc = "recognize"
    /\ recogCalls' = Append(recogCalls, i)
    /\ recogResults' = Append(recogResults, Raised)
    /\ extracted_texts' = AfterRecognitionError(extracted_texts, i, RecognitionErrorText)
    /\ i' = i + 1
    /\ pc' = NextIteration(i)
    /\ UNCHANGED << concurrentVars, configVars, requestVars, token, fetchVars, parseVars, full_text,
                    used_vision, visionCalls, pdf_doc, max_pages, renderCalls,
                    visionOutcome, response >>

\* The loop is over: the document is closed, the sections are joined, and the
\* handler takes the result.
VisionReturn ==
    /\ pc = "vision_return"
    /\ pdf_doc' = "closed"
    /\ EndVision("returned")
    /\ UNCHANGED << concurrentVars, configVars, requestVars, token, fetchVars, parseVars, visionCalls,
                    max_pages, i, extracted_texts, renderCalls, recogCalls, recogResults, response >>

\* The handler returns the success record.
Respond ==
    /\ pc = "respond"
    /\ response' = SuccessResponse(full_text, page_count, used_vision, metadata)
    /\ pc' = "done"
    /\ UNCHANGED << concurrentVars, configVars, requestVars, token, fetchVars, parseVars, full_text,
                    used_vision, visionVars >>

\* The steps of the vision fallback and the response.
VisionSteps ==
    \/ VisionConfigCheck
    \/ \E ok \in BOOLEAN : VisionImport(ok)
    \/ \E ok \in BOOLEAN : VisionOpen(ok)
    \/ \E ok \in BOOLEAN : VisionClient(ok)
    \/ \E ok \in BOOLEAN : RenderPage(ok)
    \/ \E t \in RecognizedTexts : RecognizePage(t)
    \/ RecognizeRaises
    \/ VisionReturn
    \/ Respond

\* The request scenarios: every header, body token, upstream status and body
\* length, over documents of at most MaxRequestPages pages.
Next ==
    \/ \E h \in Headers, b \in BodyTokens : Receive(h, b)
    \/ ResolveCredential
    \/ FetchTimeout
    \/ FetchRequestError
    \/ \E s \in Statuses, n \in ContentLengths : FetchResponse(s, n)
    \/ CheckStatus
    \/ CheckSize
    \/ ParseFails
    \/ \E doc \in Documents(MaxRequestPages), meta \in Metadatas : ParseTextLayer(doc, meta)
    \/ VisionSteps

Spec == Init /\ [][Next]_vars

\* The extraction scenarios: a request with a bearer header whose fetch returns
\* 200 and a body of the maximum length, over documents of at most MaxPages
\* pages.
NextExtraction ==
    \/ Receive(BearerHeader, None)
    \/ ResolveCredential
    \/ FetchTimeout
    \/ FetchRequestError
    \/ FetchResponse(200, MAX_SIZE_BYTES)
    \/ CheckStatus
    \/ CheckSize
    \/ ParseFails
    \/ \E doc \in Documents(MaxPages), meta \in Metadatas : ParseTextLayer(doc, meta)
    \/ VisionSteps

SpecExtraction == Init /\ [][NextExtraction]_vars

\* ------------------------------------------------------ concurrent requests
\* Several requests in one service process. The handler is a coroutine on the
\* event loop's single thread: it gives the thread up at `await client.get`
\* only, and everything after the reply (status and size checks, the parse and
\* the fallback with its recognition calls, made with the synchronous client)
\* runs on that thread without another await.

\* The headers of the concurrent requests.
ConcurrentHeaders == {None, BearerHeader}

\* The replies their fetches come back with.
ConcurrentReplies ==
    { Reply("timeout", 0, 0, <<>>),
      Reply("response", 404, 0, <<>>),
      Reply("response", 200, MAX_SIZE_BYTES, <<DensePage>>),
      Reply("response", 200, MAX_SIZE_BYTES, <<EmptyPage>>),
      Reply("response", 200, MAX_SIZE_BYTES, <<EmptyPage, EmptyPage>>) }

\* What their recognition calls come back with.
ConcurrentRecognitions == {<<"o", "c", "r">>, Raised}

\* A service with one client for all requests.
ClientShared(r) == 1

\* The client a request fetches with: `async with httpx.AsyncClient(...) as
\* client` opens one for each call of the handler.
Client(r) == r

\* The handler from the reply of its fetch up to its response or to its first
\* recognition call: the response, or the frame the page loop starts with.
AfterFetch(reply) ==
    LET text == Join(KeptTexts(reply.pages), BlankLine)
        pages == Len(reply.pages)
        Answer(resp) == [recognizing |-> FALSE, response |-> resp, frame |-> NoFrame]
    IN  IF reply.outcome = "timeout"
        THEN Answer(ErrorResponse(ExceptClauses(TimeoutException)))
        ELSE IF reply.outcome = "error"
        THEN Answer(ErrorResponse(ExceptClauses(RequestError)))
        ELSE IF StatusFailure(reply.status_code) # NoException
        THEN Answer(ErrorResponse(ExceptClauses(StatusFailure(reply.status_code))))
        ELSE IF TooLarge(reply.content_length)
        THEN Answer(ErrorResponse(ExceptClauses(
                 HTTPException(413, "PDF too large", reply.content_length))))
        ELSE IF NeedsVision(text, pages) /\ VisionConfigured /\ 0 < MaxVisionPages(pages)
        THEN [recognizing |-> TRUE, response |-> NoResponse,
              frame |-> Frame(text, pages, MaxVisionPages(pages), 0, <<>>)]
        ELSE IF NeedsVision(text, pages) /\ VisionConfigured
        THEN Answer(SuccessResponse(FallbackText(text, "returned", <<>>), pages,
                                    FallbackUsed("returned"), {}))
        ELSE IF NeedsVision(text, pages)
        THEN Answer(SuccessResponse(FallbackText(text, "config", <<>>), pages,
                                    FallbackUsed("config"), {}))
        ELSE Answer(SuccessResponse(text, pages, FALSE, {}))

\* The frame after the recognition call of page frame.i came back.
AfterRecognition(frame, result) ==
    Frame(frame.full_text, frame.page_count, frame.max_pages, frame.i + 1,
          IF result = Raised
          THEN AfterRecognitionError(frame.extracted_texts, frame.i, RecognitionErrorText)
          ELSE AfterRecognized(frame.extracted_texts, frame.i, result))

\* The event loop runs the handler of a new request with header h up to its
\* `await client.get(...)`, or to the 401 of a request without a credential.
CStart(r, h) ==
    /\ running = 0
    /\ cpc[r] = "new"
    /\ crequest' = [crequest EXCEPT ![r] = h]
    /\ overlapped' = (overlapped \/ \E q \in Requests : cpc[q] \in {"awaiting", "fetched"})
    /\ IF Truthy(ResolveToken(h, None))
       THEN /\ cpc' = [cpc EXCEPT ![r] = "awaiting"]
            /\ UNCHANGED cresponse
       ELSE /\ cpc' = [cpc EXCEPT ![r] = "done"]
            /\ cresponse' = [cresponse EXCEPT ![r] =
                   ErrorResponse(HTTPException(401, "Authorization token required (via header or body)", 0))]
    /\ UNCHANGED << configVars, handlerVars, running, replies, creplied, cframe, crecognized >>

\* The upstream answers the fetch of request r: the reply reaches its client,
\* whatever the event loop's thread is doing.
CFetchReply(r, reply) ==
    /\ cpc[r] = "awaiting"
    /\ replies' = [replies EXCEPT ![Client(r)] = reply]
    /\ creplied' = [creplied EXCEPT ![r] = reply]
    /\ cpc' = [cpc EXCEPT ![r] = "fetched"]
    /\ UNCHANGED << configVars, handlerVars, running, crequest, cframe, crecognized, cresponse,
                    overlapped >>

\* The event loop resumes the handler of request r with the reply of its
\* client: the handler runs to its response, or into the first recognition
\* call of its fallback, keeping the thread.
CResume(r) ==
    /\ running = 0
    /\ cpc[r] = "fetched"
    /\ IF AfterFetch(replies[Client(r)]).recognizing
       THEN /\ cpc' = [cpc EXCEPT ![r] = "recognizing"]
            /\ running' = r
            /\ cframe' = [cframe EXCEPT ![r] = AfterFetch(replies[Client(r)]).frame]
            /\ UNCHANGED cresponse
       ELSE /\ cpc' = [cpc EXCEPT ![r] = "done"]
            /\ cresponse' = [cresponse EXCEPT ![r] = AfterFetch(replies[Client(r)]).response]
            /\ UNCHANGED << running, cframe >>
    /\ UNCHANGED << configVars, handlerVars, crequest, replies, creplied, crecognized, overlapped >>

\* The recognition call request r is blocked in comes back with a result: the
\* loop goes on to the next call, or the fallback returns and the handler
\* responds, giving the thread back to the event loop.
CRecognitionReply(r, result) ==
    /\ running = r
    /\ cpc[r] = "recognizing"
    /\ crecognized' = [crecognized EXCEPT ![r] = Append(@, result)]
    /\ cframe' = [cframe EXCEPT ![r] = AfterRecognition(cframe[r], result)]
    /\ IF cframe'[r].i < cframe'[r].max_pages
       THEN UNCHANGED << cpc, running, cresponse >>
       ELSE /\ cpc' = [cpc EXCEPT ![r] = "done"]
            /\ running' = 0
            /\ cresponse' = [cresponse EXCEPT ![r] =
                   SuccessResponse(FallbackText(cframe'[r].full_text, "returned",
                                                cframe'[r].extracted_texts),
                                   cframe'[r].page_count, FallbackUsed("returned"), {})]
    /\ UNCHANGED << configVars, handlerVars, crequest, replies, creplied, overlapped >>

NextConcurrent ==
    \/ \E r \in Requests, h \in ConcurrentHeaders : CStart(r, h)
    \/ \E r \in Requests, reply \in ConcurrentReplies : CFetchReply(r, reply)
    \/ \E r \in Requests : CResume(r)
    \/ \E r \in Requests, result \in ConcurrentRecognitions : CRecognitionReply(r, result)

SpecConcurrent == Init /\ [][NextConcurrent]_vars

\* ------------------------------------------------------------- mock backend
\* The extract-text operation of the mock backend. Its handler takes the
\* credential from the body alone and its page loop has no try around the
\* recognition call; from the fetch to the response the two handlers are the
\* same statements, and so are the two fallbacks up to the recognition call.

\* The body tokens of its requests: `token: str`.
MockBodyTokens == {<<>>, <<"b", "1">>}

\* A request arrives; the handler has no Authorization parameter and sends
\* f"Bearer {request.token}", whatever the token.
MockReceive(b) ==
    /\ pc = "idle"
    /\ request_token' = b
    /\ token' = b
    /\ pc' = "fetch"
    /\ UNCHANGED << concurrentVars, configVars, authorization, fetchVars, parseVars, full_text,
                    used_vision, visionVars, response >>

\* The recognition call of page i raises: the exception leaves the loop and
\* extract_text_with_vision, with the document open.
MockRecognizeRaises ==
    /\ pc = "recognize"
    /\ recogCalls' = Append(recogCalls, i)
    /\ recogResults' = Append(recogResults, Raised)
    /\ EndVision("recognize")
    /\ UNCHANGED << concurrentVars, configVars, requestVars, token, fetchVars, parseVars,
                    visionCalls, pdf_doc, max_pages, i, extracted_texts, renderCalls, response >>

\* The requests of the mock backend whose fetch returns 200 and a body of the
\* maximum length, over documents of at most MaxPages pages.
NextMock ==
    \/ \E b \in MockBodyTokens : MockReceive(b)
    \/ FetchTimeout
    \/ FetchRequestError
    \/ FetchResponse(200, MAX_SIZE_BYTES)
    \/ CheckStatus
    \/ CheckSize
    \/ ParseFails
    \/ \E doc \in Documents(MaxPages), meta \in Metadatas : ParseTextLayer(doc, meta)
    \/ VisionConfigCheck
    \/ \E ok \in BOOLEAN : VisionImport(ok)
    \/ \E ok \in BOOLEAN : VisionOpen(ok)
    \/ \E ok \in BOOLEAN : VisionClient(ok)
    \/ \E ok \in BOOLEAN : RenderPage(ok)
    \/ \E t \in RecognizedTexts : RecognizePage(t)
    \/ MockRecognizeRaises
    \/ VisionReturn
    \/ Respond

SpecMock == Init /\ [][NextMock]_vars


\* ================================================================== claims
\* Definitions the claims are stated with, written from the claims' words.

\* The page indices 0, 1, ..., n-1 in ascending order.
Ascending(n) == [k \in 1..n |-> k - 1]

\* min(n, 5)
CappedAtFive(n) == IF n < 5 THEN n ELSE 5

\* A text without its leading whitespace, and without its trailing whitespace.
RECURSIVE LeftTrimmed(_)
LeftTrimmed(s) ==
    IF s = <<>> \/ s[1] \notin {" ", "\n", "\t", "\r"} THEN s ELSE LeftTrimmed(Tail(s))

RECURSIVE RightTrimmed(_)
RightTrimmed(s) ==
    IF s = <<>> \/ s[Len(s)] \notin {" ", "\n", "\t", "\r"}
    THEN s
    ELSE RightTrimmed(SubSeq(s, 1, Len(s) - 1))

TrimmedLength(s) == Len(RightTrimmed(LeftTrimmed(s)))

\* The per-page texts joined by blank lines, every page contributing its text
\* (an empty text for a page without text).
RECURSIVE JoinEveryPage(_)
JoinEveryPage(pages) ==
    IF pages = <<>> THEN <<>>
    ELSE IF Len(pages) = 1 THEN pages[1]
    ELSE pages[1] \o <<"\n", "\n">> \o JoinEveryPage(Tail(pages))

\* The non-empty per-page texts joined by blank lines.
RECURSIVE JoinTextPages(_)
JoinTextPages(pages) ==
    IF pages = <<>> THEN <<>>
    ELSE IF pages[1] = <<>> THEN JoinTextPages(Tail(pages))
    ELSE IF JoinTextPages(Tail(pages)) = <<>> THEN pages[1]
    ELSE pages[1] \o <<"\n", "\n">> \o JoinTextPages(Tail(pages))

\* The text-layer parse of the request succeeded.
ParseSucceeded ==
    /\ parseCalls = 1
    /\ pc # "parse"
    /\ pc = "done" => response.success

\* The request has its success response.
Succeeded == pc = "done" /\ response.success

\* The text-layer text is short of the threshold and there are pages.
ShortTextLayer ==
    /\ ParseSucceeded
    /\ Len(document) > 0
    /\ TrimmedLength(JoinTextPages(document)) < 50

\* The response a request gets when only the text layer is used.
TextLayerResponse ==
    [ status |-> 200,
      success |-> TRUE,
      text |-> JoinTextPages(document),
      page_count |-> Len(document),
      char_count |-> Len(JoinTextPages(document)),
      used_vision_ocr |-> FALSE,
      metadata |-> [ title |-> Get(metadata, "Title", ""),
                     author |-> Get(metadata, "Author", ""),
                     creator |-> Get(metadata, "Creator", ""),
                     creation_date |-> Get(metadata, "CreationDate", "") ] ]

\* ---- C1
\* C1 as stated: every request whose text layer is short and whose page count
\* is positive has exactly min(pageCount, 5) pages rendered and submitted for
\* recognition, in ascending order.
C1_ExactlyCappedPagesAlways ==
    (Succeeded /\ ShortTextLayer) =>
        /\ renderCalls = Ascending(CappedAtFive(Len(document)))
        /\ recogCalls = Ascending(CappedAtFive(Len(document)))

\* C1 amended: pages are rendered and submitted in ascending order 0, 1, 2, ...
\* and never beyond min(pageCount, 5); a request with a short text layer has
\* exactly min(pageCount, 5) pages rendered and submitted when the fallback
\* returns (used_vision_ocr = true), none when the fallback fails before the
\* page loop, and pages 0..k rendered and 0..k-1 submitted when the rendering of
\* page k raises.
C1_PagesAscendingUpToCap ==
    /\ renderCalls = Ascending(Len(renderCalls))
    /\ recogCalls = Ascending(Len(recogCalls))
    /\ Len(recogCalls) <= Len(renderCalls)
    /\ Len(renderCalls) <= CappedAtFive(Len(document))
    /\ (Succeeded /\ ShortTextLayer) =>
          /\ visionCalls = 1
          /\ response.used_vision_ocr =>
                /\ renderCalls = Ascending(CappedAtFive(Len(document)))
                /\ recogCalls = Ascending(CappedAtFive(Len(document)))
          /\ visionOutcome \in {"config", "import", "open", "client"} =>
                renderCalls = <<>> /\ recogCalls = <<>>
          /\ visionOutcome = "render" => Len(renderCalls) = Len(recogCalls) + 1
          /\ response.used_vision_ocr <=> visionOutcome = "returned"

\* A document of more than five pages went through the whole page loop.
C1_Witness ==
    /\ Succeeded
    /\ ShortTextLayer
    /\ Len(document) > 5
    /\ response.used_vision_ocr
    /\ recogCalls = <<0, 1, 2, 3, 4>>

\* ---- C2
\* C2 as stated: with a text-layer text of trimmed length >= 50 the response has
\* used_vision_ocr = false, nothing is rendered or recognized, and the text is
\* the blank-line join of the per-page texts, a page without text contributing
\* an empty text.
C2_TextIsJoinOfEveryPage ==
    (Succeeded /\ TrimmedLength(JoinTextPages(document)) >= 50) =>
        /\ ~response.used_vision_ocr
        /\ renderCalls = <<>>
        /\ recogCalls = <<>>
        /\ response.text = JoinEveryPage(document)

\* C2 amended: with a text-layer text of trimmed length >= 50 the response has
\* used_vision_ocr = false, the fallback is not entered, nothing is rendered or
\* recognized, and the text is the blank-line join, in page order, of the texts
\* of the pages that have text: a page without text contributes nothing, not
\* even a separator.
C2_TextIsJoinOfTextPages ==
    (Succeeded /\ TrimmedLength(JoinTextPages(document)) >= 50) =>
        /\ ~response.used_vision_ocr
        /\ visionCalls = 0
        /\ renderCalls = <<>>
        /\ recogCalls = <<>>
        /\ response.text = JoinTextPages(document)

\* A document with a page without text between two pages with text was
\* answered from the text layer.
C2_Witness ==
    /\ Succeeded
    /\ Len(document) >= 3
    /\ document[1] # <<>>
    /\ document[2] = <<>>
    /\ document[3] # <<>>
    /\ TrimmedLength(JoinTextPages(document)) >= 50

\* ---- C3
\* C3: when the rendering of page k raises, page k gets an error marker section,
\* the remaining pages up to the cap are still rendered, and the fallback
\* returns its sections.
C3_RenderFailureIsolated ==
    (pc = "done" /\ visionOutcome = "render") =>
        LET k == renderCalls[Len(renderCalls)]
        IN  /\ \E j \in 1..Len(extracted_texts) :
                  SubSeq(extracted_texts[j], 1, Len(PageMarker(k))) = PageMarker(k)
            /\ Len(renderCalls) = CappedAtFive(Len(document))
            /\ response.used_vision_ocr

\* ---- C4
\* The page loop collected the error marker section of page k.
RecognitionRaisedOn(k) ==
    \E j \in 1..Len(extracted_texts) :
        extracted_texts[j] = ErrorSection(k, RecognitionErrorText)

\* C4: when the recognition of page k raised, the fallback returns, the response
\* has used_vision_ocr = true, and its text holds one section per attempted
\* page, in ascending page order, the one of page k being the error marker.
C4_RecognitionFailureIsolated ==
    (pc = "done" /\ \E k \in 0..4 : RecognitionRaisedOn(k)) =>
        /\ response.success
        /\ response.used_vision_ocr
        /\ Len(extracted_texts) = Len(recogCalls)
        /\ \A j \in 1..Len(extracted_texts) :
              SubSeq(extracted_texts[j], 1, Len(PageMarker(j - 1))) = PageMarker(j - 1)
        /\ response.text = JoinEveryPage(extracted_texts)

\* ---- C5
\* The fallback ended with an exception.
FallbackFailed == visionOutcome \in {"config", "import", "open", "client", "render"}

\* C5: once the parse succeeded, a fallback that fails as a whole (unconfigured
\* backend, missing rasterizer library, document open failure, client
\* construction failure, rendering exception leaving the page loop) ends in the
\* success response of the text layer, with used_vision_ocr = false, never in
\* an error status.
C5_FailedFallbackKeepsTextLayer ==
    /\ FallbackFailed => pc \in {"respond", "done"}
    /\ (pc = "done" /\ FallbackFailed) => response = TextLayerResponse

\* The rendering of a page raised after an earlier page had been recognized.
C5_Witness ==
    /\ pc = "done"
    /\ visionOutcome = "render"
    /\ Len(recogCalls) >= 1
    /\ extracted_texts # <<>>
    /\ response = TextLayerResponse

\* ---- C6
\* One of the three backend settings is absent.
BackendUnconfigured ==
    \/ AZURE_OPENAI_ENDPOINT \in {None, <<>>}
    \/ AZURE_OPENAI_API_KEY \in {None, <<>>}
    \/ AZURE_OPENAI_DEPLOYMENT \in {None, <<>>}

\* C6: with the endpoint, the key or the deployment absent, no page is rendered
\* or submitted, no document is opened for rendering, and the response is the
\* one of a request answered from the text layer alone.
C6_UnconfiguredSkipsFallback ==
    BackendUnconfigured =>
        /\ renderCalls = <<>>
        /\ recogCalls = <<>>
        /\ pdf_doc = "none"
        /\ pc \notin {"vision_import", "vision_open", "vision_client", "render",
                      "recognize", "vision_return"}
        /\ Succeeded => response = TextLayerResponse

\* A request with a short text layer was answered while only the deployment was
\* missing.
C6_Witness ==
    /\ Succeeded
    /\ ShortTextLayer
    /\ visionCalls = 1
    /\ AZURE_OPENAI_DEPLOYMENT = <<>>
    /\ AZURE_OPENAI_ENDPOINT # None
    /\ AZURE_OPENAI_API_KEY # None
    /\ response = TextLayerResponse


\* ---- C7
\* The request was rejected for its missing credential.
RejectedForCredential ==
    /\ pc = "done"
    /\ response.status = 401
    /\ response.detail.msg = "Authorization token required (via header or body)"

\* The handler is past its credential resolution.
Resolved == pc \notin {"idle", "resolve"}

\* C7: a request with no Authorization header and no body token ends with
\* status 401, and no fetch is issued for it.
C7_NoCredentialNoFetch ==
    (Resolved /\ authorization = None /\ request_token = None) =>
        /\ pc = "done"
        /\ response.status = 401
        /\ ~response.success
        /\ fetchCalls = <<>>

\* A request without header and body token has its response.
C7_Witness ==
    /\ pc = "done"
    /\ authorization = None
    /\ request_token = None
    /\ response.status = 401

\* ---- C8
\* The credential an Authorization header carries: what follows "Bearer ", or
\* the header value itself for a header of another form.
HeaderCredential(h) ==
    IF Len(h) >= 7 /\ SubSeq(h, 1, 7) = <<"B", "e", "a", "r", "e", "r", " ">>
    THEN SubSeq(h, 8, Len(h))
    ELSE h

\* C8 as stated: the credential sent upstream is the header's whenever the
\* header is present, else the body token; the request is rejected for a
\* missing credential only when it has neither a header nor a non-empty body
\* token, so every request with a header or a non-empty body token is fetched.
C8_HeaderWheneverPresent ==
    /\ fetchCalls # <<>> =>
          fetchCalls[1] = IF authorization # None
                          THEN HeaderCredential(authorization)
                          ELSE request_token
    /\ RejectedForCredential => (authorization = None /\ request_token \in {None, <<>>})
    /\ (Resolved /\ (authorization # None \/ request_token \notin {None, <<>>})) =>
          (pc = "fetch" \/ fetchCalls # <<>>)

\* The credential of the request: what follows "Bearer " when the header starts
\* with "Bearer ", else the body token.
BearerOrBody ==
    IF authorization # None /\ Len(authorization) >= 7
       /\ SubSeq(authorization, 1, 7) = <<"B", "e", "a", "r", "e", "r", " ">>
    THEN SubSeq(authorization, 8, Len(authorization))
    ELSE request_token

\* C8 amended: the credential sent upstream is what follows "Bearer " in the
\* Authorization header when the header starts with "Bearer ", otherwise the
\* body token; the request is rejected for a missing credential, before any
\* fetch, exactly when that credential is absent or empty (a header of another
\* scheme does not count as a credential, and the header "Bearer " alone is an
\* empty credential even when a body token is present), and is fetched with
\* that credential, once, otherwise.
C8_BearerHeaderElseBody ==
    /\ Len(fetchCalls) <= 1
    /\ fetchCalls # <<>> => fetchCalls[1] = BearerOrBody
    /\ RejectedForCredential => (BearerOrBody \in {None, <<>>} /\ fetchCalls = <<>>)
    /\ (Resolved /\ BearerOrBody \in {None, <<>>}) => RejectedForCredential
    /\ (Resolved /\ BearerOrBody \notin {None, <<>>}) => (pc = "fetch" \/ fetchCalls # <<>>)

\* A request with a bearer header and a body token was fetched with the
\* header's token.
C8_Witness ==
    /\ fetchCalls = << <<"h", "1">> >>
    /\ authorization = <<"B", "e", "a", "r", "e", "r", " ", "h", "1">>
    /\ request_token = <<"b", "1">>

\* ---- C9
\* C9: a fetched body longer than 10 MiB ends with status 413 and is never
\* handed to the text-layer parser; a body of exactly 10 MiB passes the size
\* check.
C9_OversizeRejectedBeforeParse ==
    /\ (status_code = 200 /\ content_length > 10 * 1024 * 1024 /\ pc \notin {"status", "size"}) =>
          /\ pc = "done"
          /\ response.status = 413
          /\ ~response.success
          /\ parseCalls = 0
    /\ (status_code = 200 /\ content_length = 10 * 1024 * 1024 /\ pc \notin {"status", "size"}) =>
          /\ pc = "done" => (response.status # 413 /\ parseCalls = 1)
    /\ (status_code = 200 /\ content_length <= 10 * 1024 * 1024 /\ pc = "done") =>
          parseCalls = 1

\* A body one byte over the maximum was rejected.
C9_Witness ==
    /\ pc = "done"
    /\ status_code = 200
    /\ content_length = 10 * 1024 * 1024 + 1
    /\ response.status = 413
    /\ parseCalls = 0

\* ---- C10
\* The fetch of the request returned a response.
Fetched == fetchCalls # <<>> /\ status_code # 0

\* The request failed at the status checks.
FailedOnStatus ==
    /\ pc = "done"
    /\ ~response.success
    /\ response.detail.msg \in { "Unauthorized - token may be expired",
                                 "Document not found at URL",
                                 "Failed to fetch PDF" }

\* C10: upstream 401 fails as 401, 404 as 404, any other status outside 2xx
\* fails carrying that status, with no size check, parse or vision step; every
\* 2xx status is a successful fetch.
C10_StatusClassification ==
    (Fetched /\ pc # "status") =>
        /\ status_code \notin 200..299 =>
              /\ FailedOnStatus
              /\ response.status = status_code
              /\ parseCalls = 0
              /\ visionCalls = 0
        /\ status_code \in 200..299 => ~FailedOnStatus


\* ---- C11
\* The request ended in an error response.
Failed == pc = "done" /\ ~response.success

\* The failure kind of the taxonomy that the events of a failed request amount
\* to: no credential, a fetch that timed out or broke, the upstream status, the
\* body length, or (all of these passed) the parse.
FailureKind ==
    IF fetchCalls = <<>> THEN "Unauthorized"
    ELSE IF fetchOutcome = "timeout" THEN "Timeout"
    ELSE IF fetchOutcome = "error" THEN "NetworkError"
    ELSE IF status_code = 401 THEN "Unauthorized"
    ELSE IF status_code = 404 THEN "NotFound"
    ELSE IF status_code # 200 THEN "UpstreamError"
    ELSE IF content_length > MAX_SIZE_BYTES THEN "PayloadTooLarge"
    ELSE "MalformedDocument"

\* The status code of each failure kind other than UpstreamError.
KindStatus ==
    [ Unauthorized |-> 401, NotFound |-> 404, PayloadTooLarge |-> 413, Timeout |-> 504,
      NetworkError |-> 502, MalformedDocument |-> 500 ]

\* C11 as stated: each failure kind is reported with a status code that no
\* other failure kind is reported with, whatever the upstream status.
C11_DistinctStatusPerKind ==
    Failed =>
        /\ FailureKind # "UpstreamError" => response.status = KindStatus[FailureKind]
        /\ FailureKind = "UpstreamError" =>
              \A kind \in DOMAIN KindStatus : response.status # KindStatus[kind]

\* C11 amended: Unauthorized is reported with 401, NotFound with 404,
\* PayloadTooLarge with 413, Timeout with 504, NetworkError with 502 and a
\* document the parser fails on with the catch-all's 500, six distinct codes;
\* UpstreamError is reported with the upstream status itself, which is distinct
\* from those six only when the upstream status is none of them (an upstream
\* 413, 500, 502 or 504 is reported with the code of another kind).
C11_FixedCodesAndRelayedStatus ==
    Failed =>
        /\ FailureKind # "UpstreamError" => response.status = KindStatus[FailureKind]
        /\ FailureKind = "UpstreamError" => response.status = status_code

\* An upstream 413 was reported with the status of PayloadTooLarge.
C11_Witness ==
    /\ Failed
    /\ FailureKind = "UpstreamError"
    /\ status_code = 413
    /\ content_length <= MAX_SIZE_BYTES
    /\ response.status = 413

\* ---- C12
\* C12: in every success response char_count is the length of the returned
\* text, untrimmed.
C12_CharCountIsTextLength ==
    Succeeded => response.char_count = Len(response.text)

\* A text-layer text that starts with a space was returned, counted with its
\* space.
C12_Witness ==
    /\ Succeeded
    /\ ~response.used_vision_ocr
    /\ response.text = JoinTextPages(document)
    /\ TrimmedLength(response.text) < Len(response.text)
    /\ response.char_count = TrimmedLength(response.text) + 1

\* ---- C13
\* C13: used_vision_ocr is true in the response exactly when the fallback was
\* entered and at least one page was rendered or submitted for recognition.
C13_FlagIffPageAttempted ==
    Succeeded =>
        (response.used_vision_ocr <=>
            (visionCalls > 0 /\ (renderCalls # <<>> \/ recogCalls # <<>>)))

\* ---- C14
\* The fallback of the request returned.
FallbackReturned == Succeeded /\ visionOutcome = "returned"

\* The text from its j-th character on.
From(s, j) == SubSeq(s, j, Len(s))

\* The marker line of the page of ordinal n.
MarkerLine(n) ==
    <<"-", "-", "-", " ", "P", "a", "g", "e", " ">> \o Decimal(n) \o <<" ", "-", "-", "-", "\n">>

\* The text starts with the marker of the page of ordinal n.
StartsWithMarker(s, n) ==
    Len(s) >= Len(MarkerLine(n)) /\ SubSeq(s, 1, Len(MarkerLine(n))) = MarkerLine(n)

\* What follows the marker in the section of a page, given its recognition
\* result: the error note, nothing, or the recognized text.
SectionBody(result) ==
    IF result = Raised
    THEN << "[", "E", "r", "r", "o", "r", " ", "e", "x", "t", "r", "a", "c", "t", "i", "n", "g",
            " ", "t", "e", "x", "t", ":", " " >> \o RecognitionErrorText \o <<"]">>
    ELSE IF result = None THEN <<>> ELSE result

\* The sections that the recognition results of the pages of ordinals n, n+1,
\* ... amount to when every page has its section.
RECURSIVE SectionPerPage(_, _)
SectionPerPage(results, n) ==
    IF results = <<>> THEN <<>>
    ELSE <<MarkerLine(n) \o SectionBody(results[1])>> \o SectionPerPage(Tail(results), n + 1)

\* The same without the sections of the pages whose content is None or empty.
RECURSIVE SectionPerTextPage(_, _)
SectionPerTextPage(results, n) ==
    IF results = <<>> THEN <<>>
    ELSE IF results[1] \in {None, <<>>} THEN SectionPerTextPage(Tail(results), n + 1)
    ELSE <<MarkerLine(n) \o SectionBody(results[1])>>
             \o SectionPerTextPage(Tail(results), n + 1)

\* C14 as stated: after a fallback that returns over n = min(pageCount, 5)
\* pages the text is n sections joined by blank lines, the j-th starting with
\* '--- Page j ---', whatever the recognition of each page gave.
C14_SectionPerAttemptedPage ==
    FallbackReturned =>
        /\ Len(recogResults) = CappedAtFive(Len(document))
        /\ response.text = JoinEveryPage(SectionPerPage(recogResults, 1))

\* C14 amended: after a fallback that returns over n = min(pageCount, 5)
\* pages the text is the blank-line join of one section for each attempted
\* page whose recognition returned a non-empty text or raised, each starting
\* with '--- Page <ordinal> ---' for that page's ordinal, in ascending page
\* order; a page whose recognition returned an empty or absent content has no
\* section, so the text has at most n sections and is empty when every page
\* came back empty.
C14_SectionPerPageWithContent ==
    /\ extracted_texts = SectionPerTextPage(recogResults, 1)
    /\ FallbackReturned =>
          /\ Len(recogResults) = CappedAtFive(Len(document))
          /\ response.text = JoinEveryPage(SectionPerTextPage(recogResults, 1))

\* A fallback returned over five pages of which one came back empty, one
\* raised and three had text.
C14_Witness ==
    /\ FallbackReturned
    /\ Len(recogResults) = 5
    /\ recogResults[2] = <<>>
    /\ recogResults[4] = Raised
    /\ Len(extracted_texts) = 4
    /\ StartsWithMarker(extracted_texts[2], 3)
    /\ StartsWithMarker(From(response.text, Len(extracted_texts[1]) + 3), 3)

\* ---- C15
\* C15: a document whose parse reports no pages never enters the fallback: no
\* configuration check, render or recognition call, and used_vision_ocr false.
C15_NoPagesNoFallback ==
    (ParseSucceeded /\ Len(document) = 0) =>
        /\ visionCalls = 0
        /\ renderCalls = <<>>
        /\ recogCalls = <<>>
        /\ pdf_doc = "none"
        /\ pc \in {"respond", "done"}
        /\ Succeeded => (~response.used_vision_ocr /\ response.page_count = 0)

\* A document without pages was answered.
C15_Witness ==
    /\ Succeeded
    /\ parseCalls = 1
    /\ Len(document) = 0
    /\ response.page_count = 0
    /\ response.text = <<>>

\* ---- C16
\* C16: a fetch that times out is reported with 504 and any other transport
\* failure of the fetch with 502, neither with the other's code nor with 500.
C16_TimeoutAndNetworkError ==
    /\ (pc = "done" /\ fetchOutcome = "timeout") => (~response.success /\ response.status = 504)
    /\ (pc = "done" /\ fetchOutcome = "error") => (~response.success /\ response.status = 502)
    /\ fetchOutcome \in {"timeout", "error"} => (pc = "done" /\ parseCalls = 0)

\* A fetch timed out and the request was answered.
C16_Witness ==
    /\ pc = "done"
    /\ fetchOutcome = "timeout"
    /\ response.status = 504

\* ---- C19
\* C19: when the request completes, on whichever exit path, the rasterizer's
\* document opened for the fallback is closed.
C19_DocumentClosedOnEveryExit == pc = "done" => pdf_doc # "open"

\* ---- C20
\* C20: when the fallback returns, the response text is the aggregated vision
\* text alone, also when that is empty or shorter than the text-layer text,
\* and page_count and metadata are those of the text-layer parse.
C20_VisionTextReplacesTextLayer ==
    FallbackReturned =>
        /\ response.used_vision_ocr
        /\ response.text = JoinEveryPage(extracted_texts)
        /\ response.text = JoinEveryPage(SectionPerTextPage(recogResults, 1))
        /\ response.page_count = Len(document)
        /\ response.metadata = TextLayerResponse.metadata

\* A six-page document with a short text layer and a title got an empty
\* vision text, six as page count and its title.
C20_Witness ==
    /\ FallbackReturned
    /\ JoinTextPages(document) # <<>>
    /\ response.text = <<>>
    /\ Len(document) = 6
    /\ response.page_count = 6
    /\ Len(recogCalls) = 5
    /\ response.metadata.title = "Report"

\* ---- C17
\* The steps the event loop can run for request q: starting it or resuming it
\* with the reply of its fetch.
CanStep(q) ==
    \/ ENABLED (\E h \in ConcurrentHeaders : CStart(q, h))
    \/ ENABLED CResume(q)

\* C17: while a request waits on a recognition call, every other request that
\* is ready to start or to go on with the reply of its fetch can take its step.
C17_OthersStepDuringRecognition ==
    \A r \in Requests, q \in Requests :
        (q # r /\ cpc[r] = "recognizing" /\ cpc[q] \in {"new", "fetched"}) => CanStep(q)

\* ---- C18
\* The text-layer text of the pages is short of the threshold and there are pages.
ShortPages(pages) == Len(pages) > 0 /\ TrimmedLength(JoinTextPages(pages)) < 50

\* What a request answers with when it runs alone with header h, the fetch
\* reply given and the recognition results given, under the configuration of
\* the process: the status, and for a success the text, the page count and
\* the flag.
AloneResponse(h, reply, results) ==
    LET Failure(status) ==
            [status |-> status, success |-> FALSE, text |-> <<>>, page_count |-> 0,
             used_vision_ocr |-> FALSE]
        Success(text, used) ==
            [status |-> 200, success |-> TRUE, text |-> text, page_count |-> Len(reply.pages),
             used_vision_ocr |-> used]
    IN  IF h # BearerHeader THEN Failure(401)
        ELSE IF reply.outcome = "timeout" THEN Failure(504)
        ELSE IF reply.status_code # 200 THEN Failure(reply.status_code)
        ELSE IF ShortPages(reply.pages) /\ ~BackendUnconfigured
        THEN Success(JoinEveryPage(SectionPerTextPage(results, 1)), TRUE)
        ELSE Success(JoinTextPages(reply.pages), FALSE)

\* The same fields of a response.
Answered(resp) ==
    [status |-> resp.status, success |-> resp.success,
     text |-> IF resp.success THEN resp.text ELSE <<>>,
     page_count |-> IF resp.success THEN resp.page_count ELSE 0,
     used_vision_ocr |-> IF resp.success THEN resp.used_vision_ocr ELSE FALSE]

\* C18: however the requests interleave, the response of each is the one it
\* gets alone with its header, the reply the upstream sent it and the
\* recognition results it got, and its client holds the reply sent to it.
C18_ResponseAsIfAlone ==
    \A r \in Requests :
        /\ cpc[r] \in {"fetched", "recognizing", "done"} /\ creplied[r] # NoReply
              => replies[r] = creplied[r]
        /\ cpc[r] = "done" =>
              Answered(cresponse[r]) = AloneResponse(crequest[r], creplied[r], crecognized[r])

\* Two requests overlapped, one answered from its fallback over two pages and
\* the other from its text layer.
C18_Witness ==
    /\ overlapped
    /\ cpc[1] = "done" /\ cpc[2] = "done"
    /\ cresponse[1].success /\ cresponse[1].used_vision_ocr
    /\ Len(crecognized[1]) = 2
    /\ cresponse[1].text # <<>>
    /\ cresponse[2].success /\ ~cresponse[2].used_vision_ocr
    /\ cresponse[2].text = JoinTextPages(creplied[2].pages)
    /\ cresponse[2].text # <<>>

\* ---- C21
\* C21: when the text-layer parser fails on the fetched bytes the request ends
\* at once with an error response, the catch-all's 500, and the fallback is
\* never entered: no configuration check, render or recognition call.
C21_ParseFailureIsErrorWithoutFallback ==
    parseOutcome = "failed" =>
        /\ pc = "done"
        /\ ~response.success
        /\ response.status = 500
        /\ visionCalls = 0
        /\ renderCalls = <<>>
        /\ recogCalls = <<>>
        /\ pdf_doc = "none"
        /\ ~used_vision

\* A fetched body of accepted status and length failed to parse and the
\* request was answered.
C21_Witness ==
    /\ pc = "done"
    /\ parseOutcome = "failed"
    /\ status_code = 200
    /\ content_length <= MAX_SIZE_BYTES
    /\ response.status = 500

\* ---- C23
\* C23: a failure the handler classified inside its try block (upstream 401,
\* upstream 404, another upstream status, an oversized body) is answered with
\* the status and message it was raised with, and the catch-all's 500 with
\* its own message answers the parse failure only.
C23_ClassifiedFailuresPassTheCatchAll ==
    /\ (Failed /\ fetchOutcome = "response" /\ parseOutcome = "none") =>
          response.detail.msg =
              (IF status_code = 401 THEN "Unauthorized - token may be expired"
               ELSE IF status_code = 404 THEN "Document not found at URL"
               ELSE IF status_code # 200 THEN "Failed to fetch PDF"
               ELSE "PDF too large")
    /\ (Failed /\ fetchOutcome = "response" /\ parseOutcome = "none") =>
          response.status = (IF status_code # 200 THEN status_code ELSE 413)
    /\ (Failed /\ response.detail.msg = "Error processing PDF") =>
          (parseOutcome = "failed" /\ response.status = 500)

\* An oversized body was answered with 413 and its message, and not parsed.
C23_Witness ==
    /\ Failed
    /\ status_code = 200
    /\ content_length > MAX_SIZE_BYTES
    /\ parseOutcome = "none"
    /\ response.status = 413
    /\ response.detail.msg = "PDF too large"

\* ---- C22
\* A recognition call of the request raised.
RecognitionRaised == \E k \in 1..Len(recogResults) : recogResults[k] = Raised

\* C22: in the mock backend a recognition call that raises on page k is the
\* last step of the fallback: pages 0..k were rendered and submitted and none
\* after them, the sections of the pages before k are dropped, and the
\* response is the success of the text layer alone, used_vision_ocr false.
C22_MockRecognitionExceptionAbandons ==
    RecognitionRaised =>
        /\ recogResults[Len(recogResults)] = Raised
        /\ \A k \in 1..(Len(recogResults) - 1) : recogResults[k] # Raised
        /\ recogCalls = Ascending(Len(recogResults))
        /\ renderCalls = Ascending(Len(recogResults))
        /\ visionOutcome = "recognize"
        /\ pc \in {"respond", "done"}
        /\ full_text = JoinTextPages(document)
        /\ ~used_vision
        /\ pc = "done" => response = TextLayerResponse

\* The recognition of the second of three or more pages raised after the
\* first page had been recognized, and the text-layer text was returned.
C22_Witness ==
    /\ Succeeded
    /\ recogResults = << <<"o", "c", "r">>, Raised >>
    /\ extracted_texts # <<>>
    /\ Len(document) >= 3
    /\ JoinTextPages(document) # <<>>
    /\ response.text = JoinTextPages(document)
    /\ ~response.used_vision_ocr

====
